---- MODULE Spec2Model ----
(***************************************************************************)
(* Model of the two demonstration scripts of the repository:               *)
(*   - agent_w_mcp/agent_w_mcp.py : MCPClient (connect_to_servers,         *)
(*     process_query, chat_loop, cleanup) and main;                        *)
(*   - multi_agent/multi-agent.py : the supervisor/worker graph built by   *)
(*     MultiAgent.create_agent_graph and streamed by main.                 *)
(* The hosted model, the tool servers and the user are the environment:    *)
(* their answers are drawn from small sets, and each of their requests may *)
(* raise.                                                                  *)
(***************************************************************************)
EXTENDS Integers, Sequences, FiniteSets, TLC

VARIABLES
    \* ---- agent_w_mcp.py ----
    pc,               \* position of main / chat_loop / process_query
    servers,          \* number of entries of server_config["mcpServers"]
    idx,              \* index of the for loop being executed
    stdio_transports, \* connect_to_servers: local list stdio_transports
    sessions,         \* self.sessions
    exit_stack,       \* self.exit_stack: the contexts entered, in order
    open,             \* transports and sessions currently open
    line,             \* the text input() returned last
    query,            \* chat_loop: query (the stripped line)
    messages,         \* process_query: messages
    tool2session,     \* process_query: tool2session
    available_tools,  \* process_query: available_tools (names)
    content,          \* process_query: the response.content being iterated
    blk,              \* process_query: position in that iteration
    tool_results,     \* process_query: tool_results
    final_text,       \* process_query: final_text
    \* history of the run (not program state)
    opened,           \* every transport and session ever opened
    advertised,       \* per session, the names its list_tools gave this query
    reqlog,           \* requests issued since the last line was read
    lastPrint,        \* what chat_loop printed since the last line was read
    raised,           \* the last chat_loop iteration ended in its except
    followsHistory,   \* the previous process_query left tool results behind
    loopEntered,      \* chat_loop was entered
    connectFailed,    \* connect_to_servers raised
    mainPrinted,      \* main printed "An error occurred"
    escaped,          \* an exception left main through the finally clause
    cleanupCount,     \* number of calls of cleanup
    \* ---- multi-agent.py ----
    active,           \* node the graph runs next
    gmessages,        \* State["messages"]
    gnext,            \* State["next"]
    turns,            \* nodes that ran, in order
    decisions,        \* the Router answers, one per supervisor turn
    gerror            \* the run ended in main's except

cvars == <<pc, servers, idx, stdio_transports, sessions, exit_stack, open,
           line, query, messages, tool2session, available_tools, content, blk,
           tool_results, final_text, opened, advertised, reqlog, lastPrint,
           raised, followsHistory, loopEntered, connectFailed, mainPrinted,
          escaped,
           cleanupCount>>
gvars == <<active, gmessages, gnext, turns, decisions, gerror>>
vars == <<pc, servers, idx, stdio_transports, sessions, exit_stack, open,
          line, query, messages, tool2session, available_tools, content, blk,
          tool_results, final_text, opened, advertised, reqlog, lastPrint,
          raised, followsHistory, loopEntered, connectFailed, mainPrinted,
          escaped,
          cleanupCount, active, gmessages, gnext, turns, decisions, gerror>>

----------------------------------------------------------------------------
\* Bounds of the model

MaxServers == 2     \* entries of mcpServers
MaxBlocks == 2      \* content blocks of the model's first reply
MaxPad == 1         \* whitespace characters around an input line
MaxTurns == 6       \* node turns of one graph run

----------------------------------------------------------------------------
\* Small helpers

Range(s) == {s[i] : i \in 1..Len(s)}

SeqsUpTo(S, n) == UNION {[1..k -> S] : k \in 0..n}

Last(s) == s[Len(s)]

----------------------------------------------------------------------------
\* Text: a line is a sequence of one-character strings

Whitespace == {" "}

\* str.lower() on one character
LowerChar(c) ==
    CASE c = "Q" -> "q"
      [] c = "U" -> "u"
      [] c = "I" -> "i"
      [] c = "T" -> "t"
      [] c = "H" -> "h"
      [] OTHER -> c

\* str.lower()
Lower(s) == [i \in 1..Len(s) |-> LowerChar(s[i])]

RECURSIVE LStrip(_)
LStrip(s) ==
    IF s # <<>> /\ Head(s) \in Whitespace THEN LStrip(Tail(s)) ELSE s

RECURSIVE RStrip(_)
RStrip(s) ==
    IF s # <<>> /\ Last(s) \in Whitespace
    THEN RStrip(SubSeq(s, 1, Len(s) - 1)) ELSE s

\* str.strip()
Strip(s) == RStrip(LStrip(s))

\* a bug: the comparison with 'quit' without .lower()
IsQuitCaseSensitive(q) == q = <<"q", "u", "i", "t">>

\* chat_loop: query.lower() == 'quit'
IsQuit(q) == Lower(q) = <<"q", "u", "i", "t">>

\* The lines the user may type: a word with up to MaxPad blanks on each side
QuitWords ==
    {<<"q", "u", "i", "t">>, <<"Q", "U", "I", "T">>, <<"Q", "u", "i", "t">>,
     <<"q", "u", "I", "t">>}

OtherWords == {<<>>, <<"H", "i">>, <<"q", "u", "i", "t", " ", "x">>}

Pad(n) == [i \in 1..n |-> " "]

QuitLines == {Pad(l) \o w \o Pad(r) : l \in 0..MaxPad, r \in 0..MaxPad, w \in QuitWords}

OtherLines == {Pad(l) \o w \o Pad(r) : l \in 0..MaxPad, r \in 0..MaxPad, w \in OtherWords}

Lines == QuitLines \cup OtherLines

----------------------------------------------------------------------------
\* Values exchanged with the tool servers and the hosted model

ToolNames == {"bash", "search"}

\* response.tools of one list_tools call, as the list of the tools' names
ToolLists == {<<>>, <<"bash">>, <<"bash", "search">>}

TextBlock(t) == [type |-> "text", text |-> t, name |-> ""]

ToolUseBlock(n) == [type |-> "tool_use", text |-> "", name |-> n]

Blocks == {TextBlock("t")} \cup {ToolUseBlock(n) : n \in ToolNames}

\* response.content of the first messages.create
Contents == SeqsUpTo(Blocks, MaxBlocks)

\* result.content of a call_tool
ResultContents == {<<"r1">>, <<"r2">>}

Transport(i) == <<"transport", i>>

Session(i) == <<"session", i>>

NoPrint == [kind |-> "none", text |-> <<>>]

ErrorPrint == [kind |-> "error", text |-> <<>>]

\* "\n".join(final_text): the lines of the text, in order
Join(texts) == [kind |-> "response", text |-> texts]

ListToolsRequest(s) ==
    [kind |-> "list_tools", session |-> s, name |-> "", messages |-> <<>>,
     with_tools |-> FALSE, tools |-> <<>>]

CallToolRequest(s, n) ==
    [kind |-> "call_tool", session |-> s, name |-> n, messages |-> <<>>,
     with_tools |-> FALSE, tools |-> <<>>]

\* messages.create(messages=..., tools=available_tools)
FirstModelRequest(msgs, tools) ==
    [kind |-> "model", session |-> 0, name |-> "", messages |-> msgs,
     with_tools |-> TRUE, tools |-> tools]

\* a bug: the follow-up request offers the tools again
FollowupModelRequestWithTools(msgs, tools) ==
    [kind |-> "model", session |-> 0, name |-> "", messages |-> msgs,
     with_tools |-> TRUE, tools |-> tools]

\* messages.create(messages=...) of the follow-up: no tools argument
FollowupModelRequest(msgs, tools) ==
    [kind |-> "model", session |-> 0, name |-> "", messages |-> msgs,
     with_tools |-> FALSE, tools |-> <<>>]

----------------------------------------------------------------------------
\* agent_w_mcp.py: MCPClient and main

ConnectPcs ==
    {"connect_transports", "connect_sessions", "connect_initialize",
     "connect_list_tools"}

QueryPcs == {"list_tools", "create", "content_loop", "create_followup"}

ChatLoopPcs == {"chat_loop", "input"} \cup QueryPcs

\* a bug: the history of the previous call is kept
InitialMessagesKept(prev, q) == prev \o <<[role |-> "user", content |-> q]>>

\* process_query: messages = [{"role": "user", "content": query}]
\* (prev, the list the previous call left behind, is not used)
InitialMessages(prev, q) == <<[role |-> "user", content |-> q]>>

\* a bug: a name already registered keeps its session
RegisterToolsFirstWins(map, names, s) ==
    [n \in DOMAIN map \cup Range(names) |->
        IF n \in DOMAIN map THEN map[n] ELSE s]

\* process_query: for name in tool_names: tool2session[name] = session
RegisterTools(map, names, s) ==
    [n \in DOMAIN map \cup Range(names) |->
        IF n \in Range(names) THEN s ELSE map[n]]

\* a bug: only the sessions are closed
ACloseSessionsOnly(stack) == {r \in Range(stack) : r[1] = "session"}

\* AsyncExitStack.aclose(): every context entered is exited
AClose(stack) == Range(stack)

\* a bug: the text gathered so far is printed with the error
ExceptPrintPartial(texts) == [kind |-> "error", text |-> texts]

\* chat_loop: print(f"\nError: {str(e)}")
ExceptPrint(texts) == ErrorPrint

\* the locals of a process_query frame that is gone (messages is kept, so that
\* what the next call starts from can be observed)
FrameGone ==
    /\ tool2session' = <<>>
    /\ available_tools' = <<>>
    /\ content' = <<>>
    /\ blk' = 0
    /\ tool_results' = <<>>
    /\ final_text' = <<>>
    /\ advertised' = <<>>

FrameUnchanged ==
    UNCHANGED <<tool2session, available_tools, content, blk, tool_results,
                final_text, advertised>>

ConnectionUnchanged ==
    UNCHANGED <<servers, stdio_transports, sessions, exit_stack, open, opened>>

MainUnchanged ==
    UNCHANGED <<loopEntered, connectFailed, mainPrinted, escaped, cleanupCount>>

\* a bug: the exception ends the loop
ChatLoopBreaksOnException == "cleanup"

\* chat_loop: the except clause is inside the while loop, which goes on
ChatLoopOnException == "input"

\* chat_loop: an Exception raised by input() or process_query is caught in the
\* loop: the error is printed and the next iteration starts
ChatLoopExcept ==
    /\ pc' = ChatLoopOnException
    /\ lastPrint' = ExceptPrint(final_text)
    /\ raised' = TRUE
    /\ FrameGone
    /\ UNCHANGED <<idx, line, followsHistory, query, messages>>
    /\ ConnectionUnchanged
    /\ MainUnchanged

\* a bug: the exception is swallowed and the loop is entered
MainExceptContinues == "chat_loop"

\* main: except Exception: print(...), then the finally clause
MainOnException == "cleanup"

\* main: connect_to_servers raised
MainExcept ==
    /\ pc' = MainOnException
    /\ connectFailed' = TRUE
    /\ mainPrinted' = TRUE
    /\ UNCHANGED <<idx, line, followsHistory, query, messages, reqlog, lastPrint, raised,
                   loopEntered, escaped, cleanupCount>>
    /\ FrameUnchanged

ClientInit ==
    /\ pc = "connect_transports"
    /\ servers \in 0..MaxServers
    /\ idx = 1
    /\ stdio_transports = <<>>
    /\ sessions = <<>>
    /\ exit_stack = <<>>
    /\ open = {}
    /\ opened = {}
    /\ line = <<>>
    /\ followsHistory = FALSE
    /\ query = <<>>
    /\ messages = <<>>
    /\ tool2session = <<>>
    /\ available_tools = <<>>
    /\ content = <<>>
    /\ blk = 0
    /\ tool_results = <<>>
    /\ final_text = <<>>
    /\ advertised = <<>>
    /\ reqlog = <<>>
    /\ lastPrint = NoPrint
    /\ raised = FALSE
    /\ loopEntered = FALSE
    /\ connectFailed = FALSE
    /\ mainPrinted = FALSE
    /\ escaped = FALSE
    /\ cleanupCount = 0

\* connect_to_servers, first loop: a server's transport is started
OpenTransport ==
    /\ pc = "connect_transports"
    /\ idx <= servers
    /\ exit_stack' = Append(exit_stack, Transport(idx))
    /\ open' = open \cup {Transport(idx)}
    /\ opened' = opened \cup {Transport(idx)}
    /\ stdio_transports' = Append(stdio_transports, idx)
    /\ idx' = idx + 1
    /\ UNCHANGED <<pc, servers, sessions, line, followsHistory, query, messages, reqlog,
                   lastPrint, raised>>
    /\ FrameUnchanged
    /\ MainUnchanged
    /\ UNCHANGED gvars

TransportsDone ==
    /\ pc = "connect_transports"
    /\ idx > servers
    /\ pc' = "connect_sessions"
    /\ idx' = 1
    /\ UNCHANGED <<line, followsHistory, query, messages, reqlog, lastPrint, raised>>
    /\ ConnectionUnchanged
    /\ FrameUnchanged
    /\ MainUnchanged
    /\ UNCHANGED gvars

\* connect_to_servers, second loop: a session is opened on a transport
OpenSession ==
    /\ pc = "connect_sessions"
    /\ idx <= Len(stdio_transports)
    /\ exit_stack' = Append(exit_stack, Session(stdio_transports[idx]))
    /\ open' = open \cup {Session(stdio_transports[idx])}
    /\ opened' = opened \cup {Session(stdio_transports[idx])}
    /\ sessions' = Append(sessions, stdio_transports[idx])
    /\ idx' = idx + 1
    /\ UNCHANGED <<pc, servers, stdio_transports, line, followsHistory, query, messages,
                   reqlog, lastPrint, raised>>
    /\ FrameUnchanged
    /\ MainUnchanged
    /\ UNCHANGED gvars

SessionsDone ==
    /\ pc = "connect_sessions"
    /\ idx > Len(stdio_transports)
    /\ pc' = "connect_initialize"
    /\ idx' = 1
    /\ UNCHANGED <<line, followsHistory, query, messages, reqlog, lastPrint, raised>>
    /\ ConnectionUnchanged
    /\ FrameUnchanged
    /\ MainUnchanged
    /\ UNCHANGED gvars

\* connect_to_servers, third loop: session.initialize()
InitializeSession ==
    /\ pc = "connect_initialize"
    /\ idx <= Len(sessions)
    /\ pc' = "connect_list_tools"
    /\ UNCHANGED <<idx, line, followsHistory, query, messages, reqlog, lastPrint, raised>>
    /\ ConnectionUnchanged
    /\ FrameUnchanged
    /\ MainUnchanged
    /\ UNCHANGED gvars

\* connect_to_servers, third loop: session.list_tools() and the print
ConnectListTools ==
    /\ pc = "connect_list_tools"
    /\ pc' = "connect_initialize"
    /\ idx' = idx + 1
    /\ UNCHANGED <<line, followsHistory, query, messages, reqlog, lastPrint, raised>>
    /\ ConnectionUnchanged
    /\ FrameUnchanged
    /\ MainUnchanged
    /\ UNCHANGED gvars

\* connect_to_servers returns
ConnectDone ==
    /\ pc = "connect_initialize"
    /\ idx > Len(sessions)
    /\ pc' = "chat_loop"
    /\ UNCHANGED <<idx, line, followsHistory, query, messages, reqlog, lastPrint, raised>>
    /\ ConnectionUnchanged
    /\ FrameUnchanged
    /\ MainUnchanged
    /\ UNCHANGED gvars

\* connect_to_servers: the step at hand raises (starting a transport, opening
\* a session, initialize or list_tools); nothing is entered on the exit stack
ConnectFails ==
    /\ \/ pc = "connect_transports" /\ idx <= servers
       \/ pc = "connect_sessions" /\ idx <= Len(stdio_transports)
       \/ pc = "connect_initialize" /\ idx <= Len(sessions)
       \/ pc = "connect_list_tools"
    /\ MainExcept
    /\ ConnectionUnchanged
    /\ UNCHANGED gvars

\* chat_loop is entered: the two banner lines are printed
EnterChatLoop ==
    /\ pc = "chat_loop"
    /\ pc' = "input"
    /\ loopEntered' = TRUE
    /\ UNCHANGED <<idx, line, followsHistory, query, messages, reqlog, lastPrint, raised,
                   connectFailed, mainPrinted, escaped, cleanupCount>>
    /\ ConnectionUnchanged
    /\ FrameUnchanged
    /\ UNCHANGED gvars

\* chat_loop: query = input("\nQuery: ").strip()
ReadLine ==
    /\ pc = "input"
    /\ \E l \in Lines :
        /\ line' = l
        /\ query' = Strip(l)
    /\ pc' = "check_quit"
    /\ reqlog' = <<>>
    /\ lastPrint' = NoPrint
    /\ raised' = FALSE
    /\ UNCHANGED <<idx, messages, followsHistory>>
    /\ ConnectionUnchanged
    /\ FrameUnchanged
    /\ MainUnchanged
    /\ UNCHANGED gvars

\* chat_loop: input() raises (end of input, say): caught in the loop
InputFails ==
    /\ pc = "input"
    /\ reqlog' = <<>>
    /\ ChatLoopExcept
    /\ UNCHANGED gvars

\* chat_loop: if query.lower() == 'quit': break; chat_loop returns and main
\* goes on to its finally clause
QuitBreak ==
    /\ pc = "check_quit"
    /\ IsQuit(query)
    /\ pc' = "cleanup"
    /\ UNCHANGED <<idx, line, followsHistory, query, messages, reqlog, lastPrint, raised>>
    /\ ConnectionUnchanged
    /\ FrameUnchanged
    /\ MainUnchanged
    /\ UNCHANGED gvars

\* chat_loop calls process_query(query): messages, tool2session and
\* available_tools are initialised and the loop over self.sessions starts
StartQuery ==
    /\ pc = "check_quit"
    /\ ~IsQuit(query)
    /\ pc' = "list_tools"
    /\ idx' = 1
    /\ messages' = InitialMessages(messages, query)
    /\ FrameGone
    /\ line' = <<>>
    /\ followsHistory' = (Len(messages) > 1)
    /\ UNCHANGED <<query, reqlog, lastPrint, raised>>
    /\ ConnectionUnchanged
    /\ MainUnchanged
    /\ UNCHANGED gvars

\* process_query, loop over self.sessions: list_tools answers
ListTools ==
    /\ pc = "list_tools"
    /\ idx <= Len(sessions)
    /\ \E names \in ToolLists :
        /\ tool2session' = RegisterTools(tool2session, names, sessions[idx])
        /\ available_tools' = available_tools \o names
        /\ advertised' = Append(advertised, Range(names))
    /\ reqlog' = Append(reqlog, ListToolsRequest(sessions[idx]))
    /\ idx' = idx + 1
    /\ UNCHANGED <<pc, line, followsHistory, query, messages, content, blk, tool_results,
                   final_text, lastPrint, raised>>
    /\ ConnectionUnchanged
    /\ MainUnchanged
    /\ UNCHANGED gvars

\* process_query: list_tools raises
ListToolsFails ==
    /\ pc = "list_tools"
    /\ idx <= Len(sessions)
    /\ reqlog' = Append(reqlog, ListToolsRequest(sessions[idx]))
    /\ ChatLoopExcept
    /\ UNCHANGED gvars

ListToolsDone ==
    /\ pc = "list_tools"
    /\ idx > Len(sessions)
    /\ pc' = "create"
    /\ UNCHANGED <<idx, line, followsHistory, query, messages, reqlog, lastPrint, raised>>
    /\ ConnectionUnchanged
    /\ FrameUnchanged
    /\ MainUnchanged
    /\ UNCHANGED gvars

\* process_query: the first messages.create answers; tool_results and
\* final_text are initialised and the loop over response.content starts.
\* The loop iterates the list this reply holds, whatever response is bound to
\* later.
CreateMessage ==
    /\ pc = "create"
    /\ \E c \in Contents : content' = c
    /\ reqlog' = Append(reqlog, FirstModelRequest(messages, available_tools))
    /\ blk' = 1
    /\ tool_results' = <<>>
    /\ final_text' = <<>>
    /\ pc' = "content_loop"
    /\ UNCHANGED <<idx, line, followsHistory, query, messages, tool2session, available_tools,
                   advertised, lastPrint, raised>>
    /\ ConnectionUnchanged
    /\ MainUnchanged
    /\ UNCHANGED gvars

\* process_query: the first messages.create raises
CreateMessageFails ==
    /\ pc = "create"
    /\ reqlog' = Append(reqlog, FirstModelRequest(messages, available_tools))
    /\ ChatLoopExcept
    /\ UNCHANGED gvars

\* process_query, loop over response.content: a text block
ContentText ==
    /\ pc = "content_loop"
    /\ blk <= Len(content)
    /\ content[blk].type = "text"
    /\ final_text' = Append(final_text, <<"text", content[blk].text>>)
    /\ blk' = blk + 1
    /\ UNCHANGED <<pc, idx, line, followsHistory, query, messages, tool2session,
                   available_tools, content, tool_results, advertised, reqlog,
                   lastPrint, raised>>
    /\ ConnectionUnchanged
    /\ MainUnchanged
    /\ UNCHANGED gvars

\* the block has a non-empty text attribute (a tool_use block has none)
HasText(b) == b.type = "text" /\ b.text # ""

\* process_query, lines 88-96: the messages appended after a tool call
AfterToolCall(msgs, b, result) ==
    (IF HasText(b)
     THEN Append(msgs, [role |-> "assistant", content |-> <<b.text>>])
     ELSE msgs) \o <<[role |-> "user", content |-> result]>>

\* process_query, loop over response.content: a tool_use block whose tool is
\* in tool2session; call_tool answers
CallTool ==
    /\ pc = "content_loop"
    /\ blk <= Len(content)
    /\ content[blk].type = "tool_use"
    /\ content[blk].name \in DOMAIN tool2session
    /\ LET name == content[blk].name IN
        /\ reqlog' = Append(reqlog, CallToolRequest(tool2session[name], name))
        /\ \E result \in ResultContents :
            /\ tool_results' = Append(tool_results, <<name, result>>)
            /\ messages' = AfterToolCall(messages, content[blk], result)
        /\ final_text' = Append(final_text, <<"calling", name>>)
    /\ pc' = "create_followup"
    /\ UNCHANGED <<idx, line, followsHistory, query, tool2session, available_tools, content,
                   blk, advertised, lastPrint, raised>>
    /\ ConnectionUnchanged
    /\ MainUnchanged
    /\ UNCHANGED gvars

\* process_query: call_tool raises
CallToolFails ==
    /\ pc = "content_loop"
    /\ blk <= Len(content)
    /\ content[blk].type = "tool_use"
    /\ content[blk].name \in DOMAIN tool2session
    /\ reqlog' = Append(reqlog, CallToolRequest(tool2session[content[blk].name],
                                                content[blk].name))
    /\ ChatLoopExcept
    /\ UNCHANGED gvars

\* process_query: tool2session[tool_name] raises KeyError: no session
\* advertised the tool the model asks for; no request is sent
ToolLookupFails ==
    /\ pc = "content_loop"
    /\ blk <= Len(content)
    /\ content[blk].type = "tool_use"
    /\ content[blk].name \notin DOMAIN tool2session
    /\ UNCHANGED reqlog
    /\ ChatLoopExcept
    /\ UNCHANGED gvars

\* process_query: the follow-up messages.create answers and
\* response.content[0].text is appended
CreateFollowup ==
    /\ pc = "create_followup"
    /\ reqlog' = Append(reqlog, FollowupModelRequest(messages, available_tools))
    /\ final_text' = Append(final_text, <<"text", "f">>)
    /\ blk' = blk + 1
    /\ pc' = "content_loop"
    /\ UNCHANGED <<idx, line, followsHistory, query, messages, tool2session, available_tools,
                   content, tool_results, advertised, lastPrint, raised>>
    /\ ConnectionUnchanged
    /\ MainUnchanged
    /\ UNCHANGED gvars

\* process_query: the follow-up messages.create raises, or its reply has no
\* first text block
CreateFollowupFails ==
    /\ pc = "create_followup"
    /\ reqlog' = Append(reqlog, FollowupModelRequest(messages, available_tools))
    /\ ChatLoopExcept
    /\ UNCHANGED gvars

\* process_query returns "\n".join(final_text) and chat_loop prints it
ReturnResponse ==
    /\ pc = "content_loop"
    /\ blk > Len(content)
    /\ lastPrint' = Join(final_text)
    /\ pc' = "input"
    /\ FrameGone
    /\ UNCHANGED <<idx, line, followsHistory, query, messages, reqlog, raised>>
    /\ ConnectionUnchanged
    /\ MainUnchanged
    /\ UNCHANGED gvars

\* An exception that is no Exception (KeyboardInterrupt, CancelledError) is
\* caught neither by chat_loop nor by main: it leaves main through finally
EscapeException ==
    /\ pc \in ConnectPcs \cup ChatLoopPcs
    /\ pc' = "cleanup"
    /\ escaped' = TRUE
    /\ FrameGone
    /\ UNCHANGED <<idx, line, followsHistory, query, messages, reqlog, lastPrint, raised,
                   loopEntered, connectFailed, mainPrinted, cleanupCount>>
    /\ ConnectionUnchanged
    /\ UNCHANGED gvars

\* main, finally: cleanup() closes the exit stack
Cleanup ==
    /\ pc = "cleanup"
    /\ cleanupCount' = cleanupCount + 1
    /\ open' = open \ AClose(exit_stack)
    /\ exit_stack' = <<>>
    /\ pc' = "done"
    /\ UNCHANGED <<servers, idx, stdio_transports, sessions, opened, line,
                   followsHistory, query, messages, reqlog, lastPrint, raised, loopEntered,
                   connectFailed, mainPrinted, escaped>>
    /\ FrameUnchanged
    /\ UNCHANGED gvars

ClientNext ==
    \/ OpenTransport
    \/ TransportsDone
    \/ OpenSession
    \/ SessionsDone
    \/ InitializeSession
    \/ ConnectListTools
    \/ ConnectDone
    \/ ConnectFails
    \/ EnterChatLoop
    \/ ReadLine
    \/ InputFails
    \/ QuitBreak
    \/ StartQuery
    \/ ListTools
    \/ ListToolsFails
    \/ ListToolsDone
    \/ CreateMessage
    \/ CreateMessageFails
    \/ ContentText
    \/ CallTool
    \/ CallToolFails
    \/ ToolLookupFails
    \/ CreateFollowup
    \/ CreateFollowupFails
    \/ ReturnResponse
    \/ EscapeException
    \/ Cleanup

----------------------------------------------------------------------------
\* multi-agent.py: the supervisor/worker graph

team_members == {"frontend developer", "backend developer", "devops engineer"}

options == team_members \cup {"FINISH"}

END == "__end__"

\* the results a worker's agent may end with
WorkerContents == {"c1", "c2"}

\* graph.astream({"messages": [("user", user_prompt)]}, ...)
InitialMessage == [type |-> "human", name |-> "", content |-> "user_prompt"]

\* a bug: FINISH is not translated
SupervisorGotoUntranslated(response) == response

\* supervisor_node: goto = response["next"]; if goto == "FINISH": goto = END
SupervisorGoto(response) == IF response = "FINISH" THEN END ELSE response

\* a bug: a worker hands over to another worker
WorkerGotoPeer(w) ==
    IF w = "frontend developer" THEN "backend developer" ELSE "supervisor"

\* the worker nodes: Command(..., goto="supervisor")
WorkerGoto(w) == "supervisor"

\* HumanMessage(content=result["messages"][-1].content, name=...)
HumanMessage(c, w) == [type |-> "human", name |-> w, content |-> c]

GraphIdle ==
    /\ active = "idle"
    /\ gmessages = <<>>
    /\ gnext = "unset"
    /\ turns = <<>>
    /\ decisions = <<>>
    /\ gerror = FALSE

\* builder.add_edge(START, "supervisor") and the input of astream
GraphInit ==
    /\ active = "supervisor"
    /\ gmessages = <<InitialMessage>>
    /\ gnext = "unset"
    /\ turns = <<>>
    /\ decisions = <<>>
    /\ gerror = FALSE

\* supervisor_node: the Router answer decides the next node; only "next" is
\* updated
supervisor_node ==
    /\ active = "supervisor"
    /\ Len(turns) < MaxTurns
    /\ \E response \in options :
        /\ active' = SupervisorGoto(response)
        /\ gnext' = SupervisorGoto(response)
        /\ decisions' = Append(decisions, response)
    /\ turns' = Append(turns, "supervisor")
    /\ UNCHANGED <<gmessages, gerror>>
    /\ UNCHANGED cvars

\* a worker node: its agent's last message is added under the worker's name
WorkerNode(w) ==
    /\ Len(turns) < MaxTurns
    /\ \E c \in WorkerContents :
        gmessages' = Append(gmessages, HumanMessage(c, w))
    /\ active' = WorkerGoto(w)
    /\ turns' = Append(turns, w)
    /\ UNCHANGED <<gnext, decisions, gerror>>
    /\ UNCHANGED cvars

frontend_node ==
    /\ active = "frontend developer"
    /\ WorkerNode("frontend developer")

backend_node ==
    /\ active = "backend developer"
    /\ WorkerNode("backend developer")

devops_node ==
    /\ active = "devops engineer"
    /\ WorkerNode("devops engineer")

\* a node raises: astream raises and main prints "An error occurred"
NodeFails ==
    /\ active \in team_members \cup {"supervisor"}
    /\ active' = "error"
    /\ gerror' = TRUE
    /\ UNCHANGED <<gmessages, gnext, turns, decisions>>
    /\ UNCHANGED cvars

GraphNext ==
    \/ supervisor_node
    \/ frontend_node
    \/ backend_node
    \/ devops_node
    \/ NodeFails

----------------------------------------------------------------------------
\* Specifications

ClientIdle ==
    /\ ClientInit
    /\ servers = 0

Init == ClientInit /\ GraphIdle

GraphSpecInit == GraphInit /\ ClientIdle

Next == ClientNext

Spec == Init /\ [][Next]_vars

GraphSpec == GraphSpecInit /\ [][GraphNext]_vars

----------------------------------------------------------------------------
\* Properties of the tool client

CallsOf(log) == SelectSeq(log, LAMBDA r : r.kind = "call_tool")

ModelsOf(log) == SelectSeq(log, LAMBDA r : r.kind = "model")

ListsOf(log) == SelectSeq(log, LAMBDA r : r.kind = "list_tools")

ToolUses(c) == SelectSeq(c, LAMBDA b : b.type = "tool_use")

UserMessage(c) == [role |-> "user", content |-> c]

Ended == pc \in {"cleanup", "done"}

\* C1 as stated: once reading or processing a query has raised, the error is
\* printed and the loop is exited
C1_LoopExitsOnException == raised => (lastPrint.kind = "error" /\ Ended)

\* C1, amended: once reading or processing a query has raised an Exception,
\* the error is printed and the loop is not exited: it is back at its input
\* statement, where the next line can be read; the loop is left only by
\* 'quit' (a line read after the failure) or by an exception that is no
\* Exception
C1_LoopContinuesAfterException ==
    /\ (raised /\ ~escaped) =>
          /\ lastPrint.kind = "error"
          /\ pc = "input"
          /\ ENABLED ReadLine
    /\ (loopEntered /\ Ended /\ ~escaped) => (~raised /\ line \in QuitLines)

C1_Witness == raised /\ pc = "input" /\ Len(ModelsOf(reqlog)) = 2

\* C2: the map built by process_query has one entry per advertised name,
\* mapped to the last session (in connection order) advertising it, and every
\* tool call is sent to the session the map holds for the tool's name, a
\* session that advertises the tool
C2_LastRegistrationWins ==
    pc \in QueryPcs =>
        /\ Len(advertised) <= Len(sessions)
        /\ DOMAIN tool2session = UNION {advertised[i] : i \in 1..Len(advertised)}
        /\ \A n \in DOMAIN tool2session :
              \E i \in 1..Len(advertised) :
                  /\ n \in advertised[i]
                  /\ tool2session[n] = sessions[i]
                  /\ \A j \in (i + 1)..Len(advertised) : n \notin advertised[j]
        /\ \A k \in 1..Len(reqlog) :
              reqlog[k].kind = "call_tool" =>
                  /\ reqlog[k].name \in DOMAIN tool2session
                  /\ reqlog[k].session = tool2session[reqlog[k].name]
                  /\ \E i \in 1..Len(advertised) :
                        /\ sessions[i] = reqlog[k].session
                        /\ reqlog[k].name \in advertised[i]

C2_Witness ==
    /\ pc = "create_followup"
    /\ Len(advertised) = 2
    /\ advertised[1] = {"bash", "search"}
    /\ advertised[2] = {"bash"}
    /\ Len(CallsOf(reqlog)) = 2
    /\ CallsOf(reqlog)[1].session = sessions[2]
    /\ CallsOf(reqlog)[2].session = sessions[1]

\* the tool_use blocks among the first n blocks of c
UsesBefore(c, n) == ToolUses(SubSeq(c, 1, n))

\* C4: tool calls are issued only for the tool_use blocks of the first reply,
\* one per block in block order, each followed by one follow-up model request;
\* a query whose first reply holds n tool_use blocks and that runs to its end
\* has issued n tool calls and 1 + n model requests; only the first model
\* request offers the tools
C4_ToolCallsFollowFirstReply ==
    LET lists == ListsOf(reqlog)
        calls == CallsOf(reqlog)
        models == ModelsOf(reqlog)
        after == SubSeq(reqlog, Len(lists) + 1, Len(reqlog))
    IN  /\ pc \in {"check_quit", "list_tools", "create"} =>
              (calls = <<>> /\ models = <<>>)
        /\ pc \in {"content_loop", "create_followup"} =>
              LET done == UsesBefore(content, blk - 1) IN
              /\ Len(lists) = Len(sessions)
              /\ Len(models) = 1 + Len(done)
              /\ Len(calls) = Len(done) + (IF pc = "create_followup" THEN 1 ELSE 0)
              /\ pc = "create_followup" => content[blk].type = "tool_use"
              /\ \A i \in 1..Len(calls) : calls[i].name = ToolUses(content)[i].name
              /\ (pc = "content_loop" /\ blk > Len(content)) =>
                    /\ Len(calls) = Len(ToolUses(content))
                    /\ Len(models) = 1 + Len(ToolUses(content))
        /\ \A i \in 1..Len(after) :
              after[i].kind = (IF i % 2 = 1 THEN "model" ELSE "call_tool")
        /\ \A i \in 1..Len(models) : models[i].with_tools = (i = 1)
        /\ models # <<>> => models[1].tools = available_tools \/ pc \notin QueryPcs

C4_Witness ==
    /\ pc = "content_loop"
    /\ blk > Len(content)
    /\ Len(content) = 2
    /\ Len(CallsOf(reqlog)) = 2
    /\ Len(ModelsOf(reqlog)) = 3
    /\ content[1].name # content[2].name

\* C5: when a request of process_query fails, only the error is printed (none
\* of the text gathered so far), process_query is over, and nothing more is
\* requested in that iteration of the loop: the failed request is not issued
\* again and the remaining blocks are not executed
C5_NoRetryNoPartialResult ==
    /\ [](raised => (lastPrint = ErrorPrint /\ pc \notin QueryPcs))
    /\ [][raised => (reqlog' = reqlog \/ (reqlog' = <<>> /\ pc = "input"))]_vars
    /\ [](\A i, j \in 1..Len(reqlog) :
            (i < j /\ reqlog[i].kind = "list_tools" /\ reqlog[j].kind = "list_tools")
                => reqlog[i].session # reqlog[j].session)

C5_Witness ==
    /\ raised
    /\ Len(reqlog) = Len(sessions) + 4
    /\ Last(reqlog).kind = "call_tool"

\* C6: when connect_to_servers raises, main prints the error and goes to its
\* end: chat_loop is never entered, no line is read, nothing is requested
C6_ConnectFailureEndsRun ==
    connectFailed =>
        /\ mainPrinted
        /\ Ended
        /\ ~loopEntered
        /\ reqlog = <<>>
        /\ messages = <<>>
        /\ lastPrint = NoPrint

C6_Witness == connectFailed /\ pc = "done" /\ Cardinality(opened) = 3

\* C7: a line that is 'quit' up to surrounding blanks and letter case ends
\* chat_loop with nothing requested for it; every other line, the empty one
\* included, starts process_query with the stripped line as the one user
\* message, which is what every model request of the query starts with
C7_QuitExitsOtherLinesRelayed ==
    /\ [](pc = "check_quit" =>
            /\ \E l, r \in 0..MaxPad : line = Pad(l) \o query \o Pad(r)
            /\ query # <<>> => (Head(query) \notin Whitespace /\ Last(query) \notin Whitespace)
            /\ reqlog = <<>>)
    /\ [][pc = "check_quit" =>
            IF line \in QuitLines
            THEN pc' = "cleanup" /\ reqlog' = <<>>
            ELSE pc' = "list_tools" /\ messages' = <<UserMessage(query)>>]_vars
    /\ [](\A k \in 1..Len(reqlog) :
            reqlog[k].kind = "model" => reqlog[k].messages[1] = UserMessage(query))
    /\ []((Ended /\ line \in QuitLines) => reqlog = <<>>)

C7_Witness ==
    /\ pc = "cleanup"
    /\ line = <<" ", "Q", "U", "I", "T", " ">>
    /\ ~escaped

\* C8: every process_query works on a history that holds the current query
\* as its first message and after it only the results of this query's tool
\* calls, whatever the previous query left behind; every model request carries
\* a prefix of that history; self.sessions stays what connect_to_servers made
C8_HistoryPerQuery ==
    /\ pc \in QueryPcs =>
          /\ messages[1] = UserMessage(query)
          /\ Len(messages) = 1 + Len(tool_results)
          /\ \A k \in 1..Len(tool_results) :
                messages[1 + k] = UserMessage(tool_results[k][2])
          /\ \A k \in 1..Len(reqlog) :
                reqlog[k].kind = "model" =>
                    /\ Len(reqlog[k].messages) <= Len(messages)
                    /\ reqlog[k].messages = SubSeq(messages, 1, Len(reqlog[k].messages))
    /\ pc \in QueryPcs \cup {"input", "check_quit"} =>
          sessions = [i \in 1..servers |-> i]

C8_Witness ==
    /\ followsHistory
    /\ pc = "create_followup"
    /\ Len(ModelsOf(reqlog)) = 1
    /\ sessions # <<>>

\* C9: cleanup is called once, after connecting and the loop have ended; until
\* then everything opened stays open (nothing is closed while a query is
\* processed), and after it everything opened is closed
C9_CleanupOnceClosesAll ==
    /\ cleanupCount = (IF pc = "done" THEN 1 ELSE 0)
    /\ pc # "done" => (open = opened /\ Range(exit_stack) = opened)
    /\ pc = "done" => (open = {} /\ exit_stack = <<>>)
    /\ opened \subseteq
          {Transport(i) : i \in 1..servers} \cup {Session(i) : i \in 1..servers}

C9_Witness ==
    /\ pc = "done"
    /\ connectFailed
    /\ opened = {Transport(1), Transport(2), Session(1)}

----------------------------------------------------------------------------
\* Properties of the supervisor/worker graph

WorkerTurns == SelectSeq(turns, LAMBDA n : n \in team_members)

\* C3: the turns are supervisor, (worker, supervisor)*: each worker turn is
\* the one the supervisor's decision before it names, a FINISH decision ends
\* the run with no further turn, after a worker the supervisor runs, and a
\* run ends without exception only right after a FINISH decision
C3_SupervisorWorkerAlternation ==
    /\ \A i \in 1..Len(turns) :
          IF i % 2 = 1
          THEN turns[i] = "supervisor"
          ELSE turns[i] \in team_members /\ turns[i] = decisions[i \div 2]
    /\ Len(decisions) = (Len(turns) + 1) \div 2
    /\ \A k \in 1..Len(decisions) :
          /\ decisions[k] \in options
          /\ decisions[k] = "FINISH" =>
                (k = Len(decisions) /\ Len(turns) = 2 * k - 1 /\ active = END)
    /\ active = END =>
          (~gerror /\ turns # <<>> /\ Last(turns) = "supervisor"
             /\ Last(decisions) = "FINISH")
    /\ active \in team_members =>
          (turns # <<>> /\ Last(turns) = "supervisor" /\ active = Last(decisions))
    /\ active = "supervisor" => (turns = <<>> \/ Last(turns) \in team_members)
    /\ active \in team_members \cup {"supervisor", END, "error", "idle"}
    /\ gerror <=> active = "error"

C3_Witness ==
    /\ active = END
    /\ Len(turns) = 5
    /\ turns[2] # turns[4]

\* C10: the history is the initial user message followed by one message per
\* completed worker turn, in turn order, named after the worker; a supervisor
\* turn adds none; "next" is set by supervisor turns only and is then a worker
\* name or the end marker, never 'FINISH'
C10_HistoryAndNextField ==
    active # "idle" =>
        /\ gmessages[1] = InitialMessage
        /\ Len(gmessages) = 1 + Len(WorkerTurns)
        /\ \A k \in 1..Len(WorkerTurns) :
              /\ gmessages[1 + k].name = WorkerTurns[k]
              /\ gmessages[1 + k].content \in WorkerContents
        /\ gnext # "FINISH"
        /\ IF decisions = <<>>
           THEN gnext = "unset"
           ELSE /\ gnext \in team_members \cup {END}
                /\ gnext = (IF Last(decisions) = "FINISH" THEN END ELSE Last(decisions))

C10_Witness ==
    /\ gnext = END
    /\ Len(gmessages) = 3
    /\ gmessages[2].name # gmessages[3].name

====
